---- MODULE Spec2Model ----
(***************************************************************************)
(* A model of the Modbus RTU client wrapper (modbus_rtu_client.py) and of  *)
(* the register decoder (decoder.py).                                      *)
(*                                                                         *)
(* The pymodbus serial client is the transport: every invocation of one of *)
(* its read functions is answered by an outcome the environment chooses    *)
(* (a response PDU, an exception response, no response, or a raised        *)
(* exception).  Every public method of ModbusRtuClient is one action that  *)
(* records the call (op), the transport invocations it made (calls) and    *)
(* what the caller sees (result).                                          *)
(***************************************************************************)
EXTENDS Integers, Sequences, FiniteSets, TLC

VARIABLES
    client,   \* ModbusRtuClient._client: "None", or the state of the handle
    op,       \* the last call made on the model: its name and arguments
    calls,    \* the transport read invocations made during the last call
    result,   \* what the last call gave its caller: a return or a raise
    unreachable  \* how many handles are open that _client no longer refers to

vars == <<client, op, calls, result, unreachable>>

(***************************************************************************)
(* Bounds of the model.                                                    *)
(***************************************************************************)
MaxCount == 1
MaxResponseLen == 4
MaxStringLength == 5
MaxRegisters == 5
MaxUnreachable == 1

Min(a, b) == IF a < b THEN a ELSE b

(***************************************************************************)
(* Python values.  Every outcome of a call is a record of one shape:       *)
(*   kind  "return" or "raise"                                             *)
(*   cls   the exception class of a raise, "" for a return                 *)
(*   msg   what tells the raises of one class apart, "" for a return       *)
(*   none  TRUE when the value returned is None                            *)
(*   value the value returned, <<>> when there is none                     *)
(***************************************************************************)
Return(v) == [kind |-> "return", cls |-> "", msg |-> "", none |-> FALSE, value |-> v]
ReturnNone == [kind |-> "return", cls |-> "", msg |-> "", none |-> TRUE, value |-> <<>>]
Raise(c, m) == [kind |-> "raise", cls |-> c, msg |-> m, none |-> FALSE, value |-> <<>>]
NoResult == [kind |-> "idle", cls |-> "", msg |-> "", none |-> FALSE, value |-> <<>>]

\* pymodbus.exceptions: ModbusIOException and ConnectionException derive from
\* ModbusException, the class the wrapper imports, catches and raises.
ModbusExceptionClasses == {"ModbusException", "ModbusIOException", "ConnectionException"}

\* isinstance(err, ModbusException): what "except ModbusException" matches.
IsModbusException(cls) == cls \in ModbusExceptionClasses

(***************************************************************************)
(* The transport.  What one invocation of a pymodbus read function gives:  *)
(*   "pdu"       a response carrying .bits / .registers                    *)
(*   "exception" an ExceptionResponse (the device refused the request)     *)
(*   "none"      None                                                      *)
(*   "raise"     the invocation raised cls: the exchange was not completed *)
(***************************************************************************)
Pdu(vs) == [kind |-> "pdu", values |-> vs, cls |-> ""]
ExceptionResponse == [kind |-> "exception", values |-> <<>>, cls |-> ""]
NoResponse == [kind |-> "none", values |-> <<>>, cls |-> ""]
TransportRaises(c) == [kind |-> "raise", values |-> <<>>, cls |-> c]

\* What the device holds: the bits and the registers a response is cut from.
DeviceBits == <<TRUE, FALSE, TRUE, TRUE, FALSE, TRUE>>
DeviceRegisters == <<0, 65, 16706, 65535, 8257, 16672>>

\* The classes a failing transport invocation raises: a pymodbus error (a
\* ModbusException) and an error of the layer below it (not one).
TransportFailureClasses == {"ModbusIOException", "OSError"}

\* The outcomes of one invocation whose responses carry up to n of `values`.
Outcomes(values, n) ==
    {Pdu(SubSeq(values, 1, k)) : k \in 0..n}
        \cup {ExceptionResponse, NoResponse}
        \cup {TransportRaises(c) : c \in TransportFailureClasses}

\* A bit or register read of `count` values is answered with fewer, as many or
\* more; a typed read with up to MaxResponseLen registers.
BitOutcomes == Outcomes(DeviceBits, MaxCount + 1)

RegisterOutcomes == Outcomes(DeviceRegisters, MaxCount + 1)

TypedOutcomes == Outcomes(DeviceRegisters, MaxResponseLen)

\* One transport invocation, as the log keeps it.
Invocation(fn, address, count, slave, nre, outcome) ==
    [fn |-> fn, address |-> address, count |-> count, slave |-> slave,
     no_response_expected |-> nre, outcome |-> outcome]

\* The address is passed to the transport as it is and decides nothing.
Addresses == {0}
Counts == 0..MaxCount
\* Unit ids in the Modbus range 1..247 and on both sides of it.
SlaveNumbers == {0, 1, 248}


(***************************************************************************)
(* decoder.py: DataType, RegisterCountParams and DataDecoder.              *)
(*                                                                         *)
(* A data_type argument is a Python value: a member of DataType            *)
(* (py = "DataType", name its name) or something else, here an int         *)
(* (py = "int", int its value).                                            *)
(***************************************************************************)
DataType == <<"BOOL", "UINT16", "UINT32", "UINT64", "INT16", "INT32", "INT64",
              "FLOAT32", "FLOAT64", "STRING">>

DataTypeNames == {DataType[i] : i \in 1..Len(DataType)}

Member(n) == [py |-> "DataType", name |-> n, int |-> 0]
PyInt(i) == [py |-> "int", name |-> "", int |-> i]

Members == {Member(n) : n \in DataTypeNames}

\* Field data_type: DataType, validated in pydantic's default (lax) mode: a
\* member is taken as it is, and a value of a member (auto() numbers the
\* members 1, 2, ... in the order of their definition) is taken as that member.
EnumValidate(data_type) ==
    IF data_type.py = "DataType" /\ data_type.name \in DataTypeNames
    THEN Return(data_type)
    ELSE IF data_type.py = "int" /\ data_type.int \in 1..Len(DataType)
    THEN Return(Member(DataType[data_type.int]))
    ELSE Raise("ValidationError", "data_type")

\* A validation that looks at string_length for STRING alone.
RegisterCountParams_string_only(data_type, string_length) ==
    LET dt == EnumValidate(data_type) IN
    IF dt.kind = "raise" THEN dt
    ELSE IF dt.value.name = "STRING" /\ string_length <= 0
    THEN Raise("ValidationError", "string_length")
    ELSE Return([data_type |-> dt.value, string_length |-> string_length])

\* RegisterCountParams(data_type=..., string_length=...): both fields, then the
\* model validator.  pydantic's ValidationError is a ValueError.
RegisterCountParams(data_type, string_length) ==
    LET dt == EnumValidate(data_type) IN
    IF dt.kind = "raise" THEN dt
    ELSE IF string_length < 0 THEN Raise("ValidationError", "string_length")
    ELSE IF dt.value.name = "STRING" /\ string_length = 0
    THEN Raise("ValidationError", "string_length must be provided for STRING data type")
    ELSE Return([data_type |-> dt.value, string_length |-> string_length])

\* A count that rounds the half register of an odd string length down.
get_register_count_rounded_down(data_type, string_length) ==
    LET parmeters == RegisterCountParams(data_type, string_length) IN
    IF parmeters.kind = "raise" THEN parmeters
    ELSE LET t == parmeters.value.data_type.name IN
         IF t \in {"BOOL", "UINT16", "INT16"} THEN Return(1)
         ELSE IF t \in {"UINT32", "INT32", "FLOAT32"} THEN Return(2)
         ELSE IF t \in {"UINT64", "INT64", "FLOAT64"} THEN Return(4)
         ELSE Return(string_length \div 2)

get_register_count(data_type, string_length) ==
    LET parmeters == RegisterCountParams(data_type, string_length) IN
    IF parmeters.kind = "raise" THEN parmeters
    ELSE LET t == parmeters.value.data_type.name IN
         IF t = "BOOL" THEN Return(1)
         ELSE IF t \in {"UINT16", "INT16"} THEN Return(1)
         ELSE IF t \in {"UINT32", "INT32", "FLOAT32"} THEN Return(2)
         ELSE IF t \in {"UINT64", "INT64", "FLOAT64"} THEN Return(4)
         ELSE IF t = "STRING" THEN Return((string_length + 1) \div 2)
         ELSE Raise("ValueError", "Unsupported data type")

IsValueError(cls) == cls \in {"ValueError", "ValidationError"}

(***************************************************************************)
(* BinaryPayloadDecoder, as decode_registers uses it.  A register is one   *)
(* 16-bit word, packed high byte first; a decoded integer is kept as its   *)
(* sign and its magnitude in 16-bit limbs, most significant first, since   *)
(* it may be as wide as 64 bits.                                           *)
(***************************************************************************)
Endian == {"BIG", "LITTLE"}

Swap16(r) == (r % 256) * 256 + (r \div 256)

Reverse(s) == [i \in 1..Len(s) |-> s[Len(s) + 1 - i]]

\* Words that are byte-swapped but never reversed.
unpack_words_no_reverse(handle, byte_order, word_order) ==
    IF byte_order = "LITTLE"
    THEN [i \in 1..Len(handle) |-> Swap16(handle[i])]
    ELSE handle

\* _unpack_words: byteswap() when the byte order is little, reverse() when the
\* word order is little.
unpack_words(handle, byte_order, word_order) ==
    LET swapped == IF byte_order = "LITTLE"
                   THEN [i \in 1..Len(handle) |-> Swap16(handle[i])]
                   ELSE handle
    IN IF word_order = "LITTLE" THEN Reverse(swapped) ELSE swapped

\* limbs + 1, within the width of limbs.
RECURSIVE Increment(_)
Increment(limbs) ==
    IF limbs = <<>> THEN <<>>
    ELSE LET n == Len(limbs) IN
         IF limbs[n] < 65535
         THEN [limbs EXCEPT ![n] = limbs[n] + 1]
         ELSE Append(Increment(SubSeq(limbs, 1, n - 1)), 0)

IntValue(neg, mag) == [t |-> "int", neg |-> neg, mag |-> mag]

Unsigned(limbs) == IntValue(FALSE, limbs)

\* Two's complement: with the top bit set the value is -(2^n - u).
Signed(limbs) ==
    IF limbs[1] >= 32768
    THEN IntValue(TRUE, Increment([i \in 1..Len(limbs) |-> 65535 - limbs[i]]))
    ELSE IntValue(FALSE, limbs)

\* The words struct.unpack reads for a type of `width` registers: the first
\* `width` registers of the payload (a slice, so fewer when the payload is
\* shorter), reordered.  A 16-bit type is unpacked with the byte order alone.
Handle(registers, width, byte_order, word_order) ==
    LET slice == SubSeq(registers, 1, Min(width, Len(registers))) IN
    IF width = 1
    THEN [i \in 1..Len(slice) |-> IF byte_order = "LITTLE" THEN Swap16(slice[i]) ELSE slice[i]]
    ELSE unpack_words(slice, byte_order, word_order)

\* The bytes of the payload: pack("!H") of every register.
Payload(registers) ==
    [i \in 1..(2 * Len(registers)) |->
        IF i % 2 = 1 THEN registers[(i + 1) \div 2] \div 256
        ELSE registers[i \div 2] % 256]

\* str.strip(): the ASCII characters for which str.isspace() holds.
Whitespace == {9, 10, 11, 12, 13, 28, 29, 30, 31, 32}

RECURSIVE LStrip(_)
LStrip(s) ==
    IF s # <<>> /\ s[1] \in Whitespace THEN LStrip(Tail(s)) ELSE s

RECURSIVE RStrip(_)
RStrip(s) ==
    IF s # <<>> /\ s[Len(s)] \in Whitespace THEN RStrip(SubSeq(s, 1, Len(s) - 1)) ELSE s

Strip(s) == RStrip(LStrip(s))

DecodeFixed(registers, width, signed, byte_order, word_order) ==
    LET handle == Handle(registers, width, byte_order, word_order) IN
    IF Len(handle) # width THEN Raise("ValueError", "struct.error")
    ELSE Return(IF signed THEN Signed(handle) ELSE Unsigned(handle))

DecodeFloat(registers, width, byte_order, word_order) ==
    LET handle == Handle(registers, width, byte_order, word_order) IN
    IF Len(handle) # width THEN Raise("ValueError", "struct.error")
    ELSE Return([t |-> "float", neg |-> FALSE, mag |-> handle])

\* decode_string(len(registers) * 2).decode('ascii').strip()
DecodeString(registers) ==
    LET bytes == Payload(registers) IN
    IF \E i \in 1..Len(bytes) : bytes[i] >= 128
    THEN Raise("ValueError", "UnicodeDecodeError")
    ELSE Return([t |-> "str", neg |-> FALSE, mag |-> Strip(bytes)])

\* Every exception raised inside is raised again as a ValueError.
\* A decode that has a branch for BOOL: the register as a 16-bit number.
decode_registers_with_bool(registers, data_type, byte_order, word_order) ==
    LET t == IF data_type.py = "DataType" THEN data_type.name ELSE "" IN
    IF t \in {"BOOL", "UINT16"} THEN DecodeFixed(registers, 1, FALSE, byte_order, word_order)
    ELSE IF t = "INT16" THEN DecodeFixed(registers, 1, TRUE, byte_order, word_order)
    ELSE IF t = "UINT32" THEN DecodeFixed(registers, 2, FALSE, byte_order, word_order)
    ELSE IF t = "INT32" THEN DecodeFixed(registers, 2, TRUE, byte_order, word_order)
    ELSE IF t = "UINT64" THEN DecodeFixed(registers, 4, FALSE, byte_order, word_order)
    ELSE IF t = "INT64" THEN DecodeFixed(registers, 4, TRUE, byte_order, word_order)
    ELSE IF t = "FLOAT32" THEN DecodeFloat(registers, 2, byte_order, word_order)
    ELSE IF t = "FLOAT64" THEN DecodeFloat(registers, 4, byte_order, word_order)
    ELSE IF t = "STRING" THEN DecodeString(registers)
    ELSE Raise("ValueError", "Unsupported data type")

decode_registers(registers, data_type, byte_order, word_order) ==
    LET t == IF data_type.py = "DataType" THEN data_type.name ELSE "" IN
    IF t = "UINT16" THEN DecodeFixed(registers, 1, FALSE, byte_order, word_order)
    ELSE IF t = "INT16" THEN DecodeFixed(registers, 1, TRUE, byte_order, word_order)
    ELSE IF t = "UINT32" THEN DecodeFixed(registers, 2, FALSE, byte_order, word_order)
    ELSE IF t = "INT32" THEN DecodeFixed(registers, 2, TRUE, byte_order, word_order)
    ELSE IF t = "UINT64" THEN DecodeFixed(registers, 4, FALSE, byte_order, word_order)
    ELSE IF t = "INT64" THEN DecodeFixed(registers, 4, TRUE, byte_order, word_order)
    ELSE IF t = "FLOAT32" THEN DecodeFloat(registers, 2, byte_order, word_order)
    ELSE IF t = "FLOAT64" THEN DecodeFloat(registers, 4, byte_order, word_order)
    ELSE IF t = "STRING" THEN DecodeString(registers)
    ELSE Raise("ValueError", "Unsupported data type")


(***************************************************************************)
(* modbus_rtu_client.py: ModbusRtuClient.                                  *)
(*                                                                         *)
(* A method is an operator from the state of _client, the outcome of the   *)
(* transport invocation it may make and its arguments to the invocations   *)
(* made and the result the caller gets.                                    *)
(***************************************************************************)
Done(cs, r) == [calls |-> cs, result |-> r]

NotInitialized == Raise("ModbusException", "Modbus RTU client not initialized")

InvalidResponse == Raise("ModbusException", "Invalid master response")

\* A validation that misses the exception responses.
_validate_response_none_only(response) ==
    response.kind # "none"

_validate_response(response) ==
    IF response.kind = "none" THEN FALSE
    ELSE IF response.kind = "exception" THEN FALSE
    ELSE TRUE

\* response.bits[:count] and response.registers[:count]
Slice(values, count) == SubSeq(values, 1, Min(count, Len(values)))

\* The try block of _read_bits: a ModbusException is logged and raised again,
\* any other exception passes through.
_read_bits(read_function, outcome, address, count, slave_number, no_response_expected) ==
    LET invoked == <<Invocation(read_function, address, count, slave_number,
                                no_response_expected, outcome)>>
    IN IF outcome.kind = "raise" THEN Done(invoked, Raise(outcome.cls, "transport"))
       ELSE IF no_response_expected THEN Done(invoked, ReturnNone)
       ELSE IF ~_validate_response(outcome) THEN Done(invoked, InvalidResponse)
       ELSE Done(invoked, Return(Slice(outcome.values, count)))

_read_registers(read_function, outcome, address, count, slave_number, no_response_expected) ==
    LET invoked == <<Invocation(read_function, address, count, slave_number,
                                no_response_expected, outcome)>>
    IN IF outcome.kind = "raise" THEN Done(invoked, Raise(outcome.cls, "transport"))
       ELSE IF no_response_expected THEN Done(invoked, ReturnNone)
       ELSE IF ~_validate_response(outcome) THEN Done(invoked, InvalidResponse)
       ELSE Done(invoked, Return(Slice(outcome.values, count)))

read_coils(c, outcome, address, count, slave_number, no_response_expected) ==
    IF c = "None" THEN Done(<<>>, NotInitialized)
    ELSE _read_bits("read_coils", outcome, address, count, slave_number,
                    no_response_expected)

read_discrete_inputs(c, outcome, address, count, slave_number, no_response_expected) ==
    IF c = "None" THEN Done(<<>>, NotInitialized)
    ELSE _read_bits("read_discrete_inputs", outcome, address, count, slave_number,
                    no_response_expected)

read_holding_register(c, outcome, address, count, slave_number, no_response_expected) ==
    IF c = "None" THEN Done(<<>>, NotInitialized)
    ELSE _read_registers("read_holding_registers", outcome, address, count, slave_number,
                         no_response_expected)

read_input_register(c, outcome, address, count, slave_number, no_response_expected) ==
    IF c = "None" THEN Done(<<>>, NotInitialized)
    ELSE _read_registers("read_input_registers", outcome, address, count, slave_number,
                         no_response_expected)

\* read_function(address=address, count=count, slave_number=slave_number) of
\* _read_register_value: the method _read_hr_value or _read_ir_value passed,
\* called with no_response_expected left at its default, False.
ReadFunction(read_function, c, outcome, address, count, slave_number) ==
    IF read_function = "read_holding_register"
    THEN read_holding_register(c, outcome, address, count, slave_number, FALSE)
    ELSE read_input_register(c, outcome, address, count, slave_number, FALSE)

\* A typed read that reads once more when the read failed.
_read_register_value_retry(read_function, c, outcome, address, data_type, slave_number, string_length, byte_order, word_order) ==
    LET count == get_register_count(data_type, string_length) IN
    IF count.kind = "raise" THEN Done(<<>>, count)
    ELSE LET first == ReadFunction(read_function, c, outcome, address, count.value,
                                   slave_number)
             again == ReadFunction(read_function, c, outcome, address, count.value,
                                   slave_number)
             response == IF first.result.kind = "raise"
                         THEN Done(first.calls \o again.calls, again.result)
                         ELSE first
         IN IF response.result.kind = "raise" THEN response
            ELSE Done(response.calls,
                      decode_registers(response.result.value, data_type, byte_order,
                                       word_order))

\* A typed read that reads the registers first and validates the count after.
_read_register_value_read_first(read_function, c, outcome, address, data_type, slave_number, string_length, byte_order, word_order) ==
    LET count == get_register_count(data_type, string_length)
        response == ReadFunction(read_function, c, outcome, address,
                                 IF count.kind = "raise" THEN (string_length + 1) \div 2
                                 ELSE count.value,
                                 slave_number)
    IN IF count.kind = "raise" THEN Done(response.calls, count)
       ELSE IF response.result.kind = "raise" THEN response
       ELSE IF response.result.none
       THEN Done(response.calls, Raise("ModbusException", "Response from device is None"))
       ELSE Done(response.calls,
                 decode_registers(response.result.value, data_type, byte_order,
                                  word_order))

_read_register_value(read_function, c, outcome, address, data_type, slave_number, string_length, byte_order, word_order) ==
    LET count == get_register_count(data_type, string_length) IN
    IF count.kind = "raise" THEN Done(<<>>, count)
    ELSE LET response == ReadFunction(read_function, c, outcome, address, count.value,
                                      slave_number)
         IN IF response.result.kind = "raise" THEN response
            ELSE IF response.result.none
            THEN Done(response.calls, Raise("ModbusException", "Response from device is None"))
            ELSE Done(response.calls,
                      decode_registers(response.result.value, data_type, byte_order,
                                       word_order))

\* A typed read that does not test that there is a client.
_read_hr_value_unchecked(c, outcome, address, data_type, slave_number, string_length, byte_order, word_order) ==
    _read_register_value("read_holding_register", c, outcome, address, data_type,
                         slave_number, string_length, byte_order, word_order)

_read_hr_value(c, outcome, address, data_type, slave_number, string_length, byte_order, word_order) ==
    IF c = "None" THEN Done(<<>>, NotInitialized)
    ELSE _read_register_value("read_holding_register", c, outcome, address, data_type,
                              slave_number, string_length, byte_order, word_order)

_read_ir_value(c, outcome, address, data_type, slave_number, string_length, byte_order, word_order) ==
    IF c = "None" THEN Done(<<>>, NotInitialized)
    ELSE _read_register_value("read_input_register", c, outcome, address, data_type,
                              slave_number, string_length, byte_order, word_order)


(***************************************************************************)
(* The calls.  op keeps the name of the last call and its arguments (the   *)
(* arguments the call does not have keep the values of NoCall).            *)
(***************************************************************************)
NoCall ==
    [name |-> "", address |-> 0, count |-> 0, slave_number |-> 0,
     no_response_expected |-> FALSE, data_type |-> Member("BOOL"), string_length |-> 0,
     byte_order |-> "BIG", word_order |-> "BIG", registers |-> <<>>, outcome |-> ""]

ReadCall(name, address, count, slave_number, no_response_expected) ==
    [NoCall EXCEPT !.name = name, !.address = address, !.count = count,
                   !.slave_number = slave_number,
                   !.no_response_expected = no_response_expected]

TypedCall(name, address, data_type, slave_number, string_length, byte_order, word_order) ==
    [NoCall EXCEPT !.name = name, !.address = address, !.data_type = data_type,
                   !.slave_number = slave_number, !.string_length = string_length,
                   !.byte_order = byte_order, !.word_order = word_order]

\* connect(): ModbusSerialClient(...) is built and assigned, then its connect()
\* is what is returned; an exception from either returns False.
ConnectOutcomes == {"constructor raises", "connect raises", "True", "False"}

\* connect() assigns the new ModbusSerialClient to _client and never closes
\* the handle _client referred to before: when that one is open it stays open
\* with no reference left to it, until the interpreter finalizes it, if ever.
PreviousHandleOutcomes == {"left open", "finalized"}

Connect ==
    \E how \in ConnectOutcomes, previous \in PreviousHandleOutcomes :
        LET dropped == client = "open" /\ how # "constructor raises"
                          /\ previous = "left open"
        IN /\ dropped => unreachable < MaxUnreachable
           /\ client' = IF how = "constructor raises" THEN client
                        ELSE IF how = "True" THEN "open"
                        ELSE "closed"
           /\ unreachable' = IF dropped THEN unreachable + 1 ELSE unreachable
           /\ op' = [NoCall EXCEPT !.name = "connect", !.outcome = how]
           /\ calls' = <<>>
           /\ result' = Return(how = "True")

\* disconnect(): close() when there is a client and it is connected.
DisconnectOutcomes == {"closed", "close raises"}

\* A disconnect that tests only that there is a client, not that it is
\* connected.
Disconnect_without_connected_check ==
    \E how \in DisconnectOutcomes :
        /\ client' = IF client # "None" /\ how = "closed" THEN "closed" ELSE client
        /\ op' = [NoCall EXCEPT !.name = "disconnect",
                                !.outcome = IF client # "None" THEN how ELSE ""]
        /\ calls' = <<>>
        /\ result' = Return(client # "None" /\ how = "closed")
        /\ UNCHANGED unreachable

Disconnect ==
    \E how \in DisconnectOutcomes :
        /\ client' = IF client = "open" /\ how = "closed" THEN "closed" ELSE client
        /\ op' = [NoCall EXCEPT !.name = "disconnect",
                                !.outcome = IF client = "open" THEN how ELSE ""]
        /\ calls' = <<>>
        /\ result' = Return(client = "open" /\ how = "closed")
        /\ UNCHANGED unreachable

ReadCoils ==
    \E address \in Addresses, count \in Counts, slave_number \in SlaveNumbers,
       no_response_expected \in BOOLEAN, outcome \in BitOutcomes :
        \E done \in {read_coils(client, outcome, address, count, slave_number,
                               no_response_expected)} :
           /\ op' = ReadCall("read_coils", address, count, slave_number,
                             no_response_expected)
           /\ calls' = done.calls
           /\ result' = done.result
           /\ UNCHANGED <<client, unreachable>>

ReadDiscreteInputs ==
    \E address \in Addresses, count \in Counts, slave_number \in SlaveNumbers,
       no_response_expected \in BOOLEAN, outcome \in BitOutcomes :
        \E done \in {read_discrete_inputs(client, outcome, address, count, slave_number,
                                         no_response_expected)} :
           /\ op' = ReadCall("read_discrete_inputs", address, count, slave_number,
                             no_response_expected)
           /\ calls' = done.calls
           /\ result' = done.result
           /\ UNCHANGED <<client, unreachable>>

ReadHoldingRegister ==
    \E address \in Addresses, count \in Counts, slave_number \in SlaveNumbers,
       no_response_expected \in BOOLEAN, outcome \in RegisterOutcomes :
        \E done \in {read_holding_register(client, outcome, address, count, slave_number,
                                          no_response_expected)} :
           /\ op' = ReadCall("read_holding_register", address, count, slave_number,
                             no_response_expected)
           /\ calls' = done.calls
           /\ result' = done.result
           /\ UNCHANGED <<client, unreachable>>

ReadInputRegister ==
    \E address \in Addresses, count \in Counts, slave_number \in SlaveNumbers,
       no_response_expected \in BOOLEAN, outcome \in RegisterOutcomes :
        \E done \in {read_input_register(client, outcome, address, count, slave_number,
                                        no_response_expected)} :
           /\ op' = ReadCall("read_input_register", address, count, slave_number,
                             no_response_expected)
           /\ calls' = done.calls
           /\ result' = done.result
           /\ UNCHANGED <<client, unreachable>>

\* The unit id the typed reads are made with.
UnitIds == {247}

\* The typed reads: read_hr_uint16 ... read_hr_float64 and read_hr_string pass
\* _read_hr_value a member of DataType, the string length of read_hr_string
\* alone, and no byte or word order (both BIG by default).
StringLengths == (0 - 1)..MaxStringLength

TypedArguments ==
    {<<Member(n), 0>> : n \in DataTypeNames \ {"STRING"}}
        \cup {<<Member("STRING"), n>> : n \in StringLengths}

ReadHrValue ==
    \E address \in Addresses, typed \in TypedArguments, slave_number \in UnitIds,
       outcome \in TypedOutcomes :
        \E done \in {_read_hr_value(client, outcome, address, typed[1], slave_number,
                                   typed[2], "BIG", "BIG")} :
           /\ op' = TypedCall("_read_hr_value", address, typed[1], slave_number,
                              typed[2], "BIG", "BIG")
           /\ calls' = done.calls
           /\ result' = done.result
           /\ UNCHANGED <<client, unreachable>>

ReadIrValue ==
    \E address \in Addresses, typed \in TypedArguments, slave_number \in UnitIds,
       outcome \in TypedOutcomes :
        \E done \in {_read_ir_value(client, outcome, address, typed[1], slave_number,
                                   typed[2], "BIG", "BIG")} :
           /\ op' = TypedCall("_read_ir_value", address, typed[1], slave_number,
                              typed[2], "BIG", "BIG")
           /\ calls' = done.calls
           /\ result' = done.result
           /\ UNCHANGED <<client, unreachable>>

Init ==
    /\ client = "None"
    /\ op = NoCall
    /\ calls = <<>>
    /\ result = NoResult
    /\ unreachable = 0

\* The bit and register reads of a client over its life.
Next ==
    \/ Connect
    \/ Disconnect
    \/ ReadCoils
    \/ ReadDiscreteInputs
    \/ ReadHoldingRegister
    \/ ReadInputRegister

Spec == Init /\ [][Next]_vars

\* The typed reads of a client over its life.
NextTyped ==
    \/ Connect
    \/ Disconnect
    \/ ReadHrValue
    \/ ReadIrValue

SpecTyped == Init /\ [][NextTyped]_vars

\* Every read of a client over its life.
NextAll ==
    \/ Next
    \/ NextTyped

SpecAll == Init /\ [][NextAll]_vars

(***************************************************************************)
(* The decoder alone: the arguments are drawn at the start, and the two    *)
(* static methods of DataDecoder are applied to them.                      *)
(***************************************************************************)
RegisterValues == {0, 65, 16672, 65535}

RECURSIVE SeqsUpTo(_, _)
SeqsUpTo(S, n) ==
    IF n = 0 THEN {<<>>}
    ELSE LET shorter == SeqsUpTo(S, n - 1) IN
         shorter \cup {Append(q, x) : q \in {r \in shorter : Len(r) = n - 1}, x \in S}

\* What a caller may pass for data_type: a member, or an int.
DataTypeInputs == Members \cup {PyInt(i) : i \in 0..(Len(DataType) + 1)}

StringLengthInputs == (0 - 2)..MaxStringLength

InitCodec ==
    /\ client = "None"
    /\ calls = <<>>
    /\ result = NoResult
    /\ unreachable = 0
    /\ \/ \E data_type \in DataTypeInputs, string_length \in StringLengthInputs :
            op = [NoCall EXCEPT !.data_type = data_type, !.string_length = string_length]
       \/ \E registers \in SeqsUpTo(RegisterValues, MaxRegisters), data_type \in Members,
             byte_order \in Endian, word_order \in Endian :
            op = [NoCall EXCEPT !.registers = registers, !.data_type = data_type,
                                !.byte_order = byte_order, !.word_order = word_order]

GetRegisterCount ==
    /\ op' = [op EXCEPT !.name = "get_register_count"]
    /\ result' = get_register_count(op.data_type, op.string_length)
    /\ UNCHANGED <<client, calls, unreachable>>

DecodeRegisters ==
    /\ op' = [op EXCEPT !.name = "decode_registers"]
    /\ result' = decode_registers(op.registers, op.data_type, op.byte_order, op.word_order)
    /\ UNCHANGED <<client, calls, unreachable>>

NextCodec ==
    \/ GetRegisterCount
    \/ DecodeRegisters

SpecCodec == InitCodec /\ [][NextCodec]_vars


(***************************************************************************)
(* The properties.                                                         *)
(***************************************************************************)
PlainReads ==
    {"read_coils", "read_discrete_inputs", "read_holding_register", "read_input_register"}

TypedReads == {"_read_hr_value", "_read_ir_value"}

\* The table of register widths, and ceil(n / 2) for a string of n characters.
CeilHalf(n) == CHOOSE k \in 0..n : 2 * k >= n /\ 2 * (k - 1) < n

TableCount(name, n) ==
    IF name \in {"BOOL", "UINT16", "INT16"} THEN 1
    ELSE IF name \in {"UINT32", "INT32", "FLOAT32"} THEN 2
    ELSE IF name \in {"UINT64", "INT64", "FLOAT64"} THEN 4
    ELSE CeilHalf(n)

\* A request as the data model has it: a positive count, a unit id in 1..247.
ValidRequest == op.count >= 1 /\ op.slave_number \in 1..247

FixedWidthTypes ==
    {"UINT16", "INT16", "UINT32", "INT32", "UINT64", "INT64", "FLOAT32", "FLOAT64"}

\* C1: a bit or register read of a valid request made with
\* no_response_expected on a client that has a transport returns None,
\* whatever the transport invocation did, a raised communication error
\* included.
C1_SuppressedReadReturnsNone ==
    (op.name \in PlainReads /\ client # "None" /\ ValidRequest
        /\ op.no_response_expected)
        => (result.kind = "return" /\ result.none)

C3_ZeroCountRejectedBeforeTransport ==
    (op.name \in PlainReads /\ client # "None" /\ op.count = 0
        /\ op.slave_number \in 1..247)
        => (result.kind = "raise" /\ calls = <<>>)

\* C4: when the transport invocation of a valid read that expects a response raises
\* (the exchange was not completed), the caller gets an error of another kind
\* than for a device-exception response: not one that a handler for the
\* ModbusException of an invalid response takes too.
C4_TransportFailureIsAnotherKind ==
    (op.name \in PlainReads /\ ValidRequest /\ ~op.no_response_expected
        /\ calls # <<>> /\ calls[1].outcome.kind = "raise")
        => (result.kind = "raise" /\ ~IsModbusException(result.cls))

\* C5: a typed read with valid parameters on a client that has a transport
\* invokes the transport register read exactly once, whether it then succeeds
\* or fails: with the caller's address and unit id, the count of the table of
\* register widths and no_response_expected = False.
C5_TypedReadInvokesTransportOnce ==
    (op.name \in TypedReads /\ client # "None"
        /\ (op.data_type.name = "STRING" => op.string_length >= 1))
        => /\ Len(calls) = 1
           /\ calls[1].fn = (IF op.name = "_read_hr_value" THEN "read_holding_registers"
                             ELSE "read_input_registers")
           /\ calls[1].address = op.address
           /\ calls[1].count = TableCount(op.data_type.name, op.string_length)
           /\ calls[1].slave = op.slave_number
           /\ calls[1].no_response_expected = FALSE

\* C5 happens: a typed read of four registers whose one transport invocation
\* raised has ended.
C5_Witness ==
    /\ op.name \in TypedReads
    /\ Len(calls) = 1
    /\ calls[1].count = 4
    /\ calls[1].outcome.kind = "raise"
    /\ result.kind = "raise"

\* C6: a valid bit or register read that expects a response and returns, returns
\* exactly op.count values: the first op.count values of the response.
C6_ReturnsExactlyCountValues ==
    (op.name \in PlainReads /\ ValidRequest /\ ~op.no_response_expected
        /\ result.kind = "return")
        => /\ Len(result.value) = op.count
           /\ result.value = SubSeq(calls[1].outcome.values, 1, op.count)

\* C7: a bit or register read (of a positive count) with a unit id outside
\* 1..247 on a client that has a transport raises, and no such unit id reaches the transport.
C7_UnitIdOutOfRangeRejected ==
    (op.name \in PlainReads /\ client # "None" /\ op.count >= 1
        /\ op.slave_number \notin 1..247)
        => (result.kind = "raise" /\ calls = <<>>)

\* C8: decode_registers of a fixed-width type raises ValueError whenever the
\* number of registers is not the width of the type, too few or too many.
C8_WrongLengthFailsToDecode ==
    (op.name = "decode_registers" /\ op.data_type.name \in FixedWidthTypes
        /\ Len(op.registers) # TableCount(op.data_type.name, 0))
        => (result.kind = "raise" /\ IsValueError(result.cls))

\* C9: for every member of DataType and every string_length >= 0 valid for it
\* (>= 1 for STRING), get_register_count returns the count of the table, 1, 2
\* or 4 whatever string_length is and ceil(n / 2) for a STRING of n characters,
\* and the count is positive.
C9_RegisterCountMatchesTable ==
    (op.name = "get_register_count" /\ op.data_type \in Members /\ op.string_length >= 0
        /\ (op.data_type.name = "STRING" => op.string_length >= 1))
        => /\ result.kind = "return"
           /\ result.value = TableCount(op.data_type.name, op.string_length)
           /\ result.value > 0

\* C9 happens: get_register_count(STRING, 5) has returned 3.
C9_Witness ==
    /\ op.name = "get_register_count"
    /\ op.data_type = Member("STRING")
    /\ op.string_length = 5
    /\ result.kind = "return"
    /\ result.value = 3

\* C10: get_register_count raises ValueError in exactly these cases: STRING
\* with string_length = 0, a negative string_length, a data_type that is not a
\* member of DataType; in every other case it returns.
C10_RaisesExactlyWhenInvalid ==
    op.name = "get_register_count"
        => /\ result.kind \in {"return", "raise"}
           /\ (result.kind = "raise" /\ IsValueError(result.cls))
                <=> \/ op.data_type = Member("STRING") /\ op.string_length = 0
                    \/ op.string_length < 0
                    \/ op.data_type \notin Members

\* The integer values of the members of DataType, 1..10, which the validation
\* of data_type takes for the members.
MemberValues == {PyInt(i) : i \in 1..Len(DataType)}

\* C10, amended: get_register_count raises ValueError in exactly these cases:
\* STRING (the member, or its value 10) with string_length = 0, a negative
\* string_length, a data_type that is neither a member of DataType nor the
\* integer value of one; in every other case it returns.
C10_RaisesExactlyWhenInvalidOrNotCoercible ==
    op.name = "get_register_count"
        => /\ result.kind \in {"return", "raise"}
           /\ (result.kind = "raise" /\ IsValueError(result.cls))
                <=> \/ op.data_type \in {Member("STRING"), PyInt(Len(DataType))}
                       /\ op.string_length = 0
                    \/ op.string_length < 0
                    \/ op.data_type \notin (Members \cup MemberValues)

\* C10 happens: get_register_count(2, 0), the value of UINT16 in place of the
\* member, has returned 1.
C10_Witness ==
    /\ op.name = "get_register_count"
    /\ op.data_type = PyInt(2)
    /\ op.string_length = 0
    /\ result.kind = "return"
    /\ result.value = 1

IntegerTypes == {"UINT16", "INT16", "UINT32", "INT32", "UINT64", "INT64"}

SignedTypes == {"INT16", "INT32", "INT64"}

\* The bytes of a value, most significant first: the registers, reversed when
\* the word order is little, each giving its two bytes, swapped when the byte
\* order is little.
OrderedBytes(registers, byte_order, word_order) ==
    LET n == Len(registers)
        regs == IF word_order = "LITTLE" THEN [i \in 1..n |-> registers[n + 1 - i]]
                ELSE registers
    IN [i \in 1..(2 * n) |->
           LET r == regs[(i + 1) \div 2] IN
           IF (i % 2 = 1) = (byte_order = "BIG") THEN r \div 256 ELSE r % 256]

\* The same bytes in 16-bit limbs.
OrderedLimbs(registers, byte_order, word_order) ==
    LET bytes == OrderedBytes(registers, byte_order, word_order) IN
    [i \in 1..Len(registers) |-> bytes[2 * i - 1] * 256 + bytes[2 * i]]

\* a + b + carry in limbs, the carry out first.
RECURSIVE AddLimbs(_, _, _)
AddLimbs(a, b, carry) ==
    IF a = <<>> THEN <<carry>>
    ELSE LET n == Len(a)
             s == a[n] + b[n] + carry
         IN Append(AddLimbs(SubSeq(a, 1, n - 1), SubSeq(b, 1, n - 1), s \div 65536),
                   s % 65536)

\* 2^(16 n) in limbs.
TwoToThe16(n) == <<1>> \o [i \in 1..n |-> 0]

\* C11: decode_registers of an integer type, given as many registers as the
\* type is wide, returns the integer read from the ordered bytes: for an
\* unsigned type, or with the top bit clear, that magnitude; for a signed type
\* with the top bit set, minus the magnitude m with m + u = 2^(16 n).
C11_IntegerDecodeFollowsOrders ==
    (op.name = "decode_registers" /\ op.data_type.name \in IntegerTypes
        /\ Len(op.registers) = TableCount(op.data_type.name, 0))
        => LET u == OrderedLimbs(op.registers, op.byte_order, op.word_order) IN
           /\ result.kind = "return"
           /\ result.value.t = "int"
           /\ IF op.data_type.name \in SignedTypes /\ u[1] >= 32768
              THEN /\ result.value.neg
                   /\ Len(result.value.mag) = Len(u)
                   /\ AddLimbs(result.value.mag, u, 0) = TwoToThe16(Len(u))
              ELSE /\ ~result.value.neg
                   /\ result.value.mag = u

\* C11 happens: [0x4120, 0xFFFF] as INT32 with little byte order and little
\* word order has been decoded to -57279, the bytes FF FF 20 41 of the
\* reversed, byte-swapped registers read as two's complement.
C11_Witness ==
    /\ op.name = "decode_registers"
    /\ op.data_type = Member("INT32")
    /\ op.registers = <<16672, 65535>>
    /\ op.byte_order = "LITTLE"
    /\ op.word_order = "LITTLE"
    /\ result.kind = "return"
    /\ result.value = IntValue(TRUE, <<0, 57279>>)

\* s without its trailing padding: the NUL and whitespace bytes at its end.
RECURSIVE TrimPadding(_)
TrimPadding(s) ==
    IF s # <<>> /\ s[Len(s)] \in (Whitespace \cup {0})
    THEN TrimPadding(SubSeq(s, 1, Len(s) - 1))
    ELSE s

\* C12: decode_registers of STRING returns the 2 * len(registers) bytes as
\* ASCII text with the trailing NUL and whitespace bytes removed and the
\* leading characters kept, and raises ValueError when a byte is not ASCII.
C12_StringDecodeStripsTrailingPadding ==
    (op.name = "decode_registers" /\ op.data_type = Member("STRING"))
        => LET bytes == Payload(op.registers) IN
           IF \E i \in 1..Len(bytes) : bytes[i] >= 128
           THEN result.kind = "raise" /\ IsValueError(result.cls)
           ELSE /\ result.kind = "return"
                /\ result.value.t = "str"
                /\ result.value.mag = TrimPadding(bytes)

\* Texts an encode operation has to take: ASCII strings that do not end in
\* padding, one of them beginning with a blank.
RoundTripTexts == {<<65>>, <<65, 65>>, <<65, 32, 65>>, <<32, 65>>}

\* The registers an encoding of such a text can be made of: two bytes each,
\* a byte being a character of the text or a pad byte (NUL or blank).
RoundTripWords == {256 * hi + lo : hi, lo \in {0, 32, 65}}

RoundTripRegisters == SeqsUpTo(RoundTripWords, Len(<<1, 2>>))

\* The register sequences that decode_registers turns back into text v: the
\* results an encode operation obeying the round trip could give for v.
Encodings(v, byte_order, word_order) ==
    {r \in RoundTripRegisters :
        decode_registers(r, Member("STRING"), byte_order, word_order)
            = Return([t |-> "str", neg |-> FALSE, mag |-> v])}

\* C13: the codec has an encode operation with
\* decode(encode(v, t, bo, wo), t, bo, wo) = v for every representable v and
\* every byte and word order; here for t = STRING and the orders of the
\* decode at hand: every text has registers that decode_registers turns back
\* into it.
C13_EncodeDecodeRoundTrip ==
    (op.name = "decode_registers" /\ op.data_type = Member("STRING"))
        => \A v \in RoundTripTexts :
              Encodings(v, op.byte_order, op.word_order) # {}

\* C14: a typed read on an initialized client whose register count is invalid
\* (a STRING read with string_length 0 or negative) raises the validation
\* failure of get_register_count itself and never invokes the transport.
C14_InvalidCountFailsBeforeTransport ==
    (op.name \in TypedReads /\ client # "None"
        /\ op.data_type.name = "STRING" /\ op.string_length <= 0)
        => /\ calls = <<>>
           /\ result.kind = "raise"
           /\ result.cls = "ValidationError"
           /\ IsValueError(result.cls)
           /\ result = get_register_count(op.data_type, op.string_length)

\* C14 happens: read_hr_string with string_length 0 on a connected client has
\* raised the validation failure.
C14_Witness ==
    /\ op.name = "_read_hr_value"
    /\ client = "open"
    /\ op.data_type = Member("STRING")
    /\ op.string_length = 0
    /\ calls = <<>>
    /\ result.kind = "raise"
    /\ result.cls = "ValidationError"

\* C15: disconnect never raises; it returns True only when the client was
\* connected at the call, and the client is not connected after it; it returns
\* False when the client was not connected (never connected, connect failed
\* or already disconnected), so a disconnect right after one that returned
\* True returns False.
C15_DisconnectTrueOnlyWhenConnected ==
    [][op'.name = "disconnect"
        => /\ result'.kind = "return"
           /\ result'.value \in BOOLEAN
           /\ result'.value => (client = "open" /\ client' = "closed")
           /\ client # "open" => (result'.value = FALSE /\ client' = client)
           /\ (op.name = "disconnect" /\ result = Return(TRUE))
                 => result' = Return(FALSE)]_vars

\* C15 happens: a disconnect of a client whose handle is not connected (as
\* after a disconnect that returned True) has returned False without closing.
C15_Witness ==
    /\ op.name = "disconnect"
    /\ op.outcome = ""
    /\ client = "closed"
    /\ result = Return(FALSE)

\* C16: on a client that has no transport object, every bit, register and typed
\* read raises ModbusException "not initialized" without invoking the transport
\* and without the failure of an invalid register count, whatever the
\* arguments.
C16_UninitializedClientRejectsEveryRead ==
    (op.name \in (PlainReads \cup TypedReads) /\ client = "None")
        => /\ result = NotInitialized
           /\ result.kind = "raise"
           /\ result.cls = "ModbusException"
           /\ calls = <<>>

\* C16 happens: read_hr_string with string_length 0 on a client that has never
\* connected has raised "not initialized".
C16_Witness ==
    /\ op.name = "_read_hr_value"
    /\ client = "None"
    /\ op.data_type = Member("STRING")
    /\ op.string_length = 0
    /\ calls = <<>>
    /\ result = NotInitialized

\* C17: get_register_count gives 1 for BOOL, decode_registers raises ValueError
\* for BOOL whatever the registers, and so a typed register read of BOOL makes
\* its one transport read of one register and then raises: the decode error
\* when the read gave a register, and never a value.
C17_BoolReadsOneRegisterAndNeverDecodes ==
    (op.name \in TypedReads /\ client # "None" /\ op.data_type = Member("BOOL"))
        => /\ get_register_count(op.data_type, op.string_length) = Return(1)
           /\ \A r \in SeqsUpTo(RegisterValues, MaxRegisters) :
                 \A bo \in Endian : \A wo \in Endian :
                    LET decoded == decode_registers(r, op.data_type, bo, wo) IN
                    decoded.kind = "raise" /\ IsValueError(decoded.cls)
           /\ Len(calls) = 1
           /\ calls[1].count = 1
           /\ result.kind = "raise"
           /\ (calls[1].outcome.kind = "pdu" /\ calls[1].outcome.values # <<>>)
                 => IsValueError(result.cls)

\* C17 happens: a typed read of BOOL whose transport read gave one register has
\* raised the decode error.
C17_Witness ==
    /\ op.name = "_read_hr_value"
    /\ op.data_type = Member("BOOL")
    /\ Len(calls) = 1
    /\ calls[1].count = 1
    /\ calls[1].outcome = Pdu(<<0>>)
    /\ result = Raise("ValueError", "Unsupported data type")

\* The transport handles created by the client that are open.
OpenHandles == (IF client = "open" THEN 1 ELSE 0) + unreachable

\* C18: at every point at most one transport handle created by the client is
\* open, and none is open that the client no longer refers to.
C18_AtMostOneOpenHandle ==
    /\ OpenHandles <= 1
    /\ unreachable = 0

====
